---- MODULE Spec2Model ----
(***************************************************************************)
(* Model of index.js: the four filesystem tools (list_files,               *)
(* create_folder, move_file, write_report), the tool registry and the      *)
(* tool-calling loop of runAgent.                                          *)
(*                                                                         *)
(* Strings are sequences of chunks.  A path is a sequence of one-character *)
(* chunks ("x/a.p" is <<"x","/","a",".","p">>), so that path.extname,      *)
(* path.basename and String.prototype.slice are computed character by      *)
(* character; the literal parts of a template string are single chunks.    *)
(* All paths are relative to the working directory, written <<>>, which    *)
(* always exists.                                                          *)
(***************************************************************************)
EXTENDS Integers, Sequences, FiniteSets, TLC

VARIABLES pc, messages, i, fs, now, requests, execLog, summary, nextId, last,
          main, plan

vars == <<pc, messages, i, fs, now, requests, execLog, summary, nextId, last,
          main, plan>>

\* ------------------------------------------------------------------ bounds
\* requests sent in a run; tool calls requested in a run; clock values; calls
\* of move_file in a run of move_file on its own; calls in a run of the four
\* tools on their own
MaxRequests == 2
MaxToolCalls == 2
MaxClock == 2
MaxMoves == 2
MaxDirectCalls == 2

\* ----------------------------------------------------------- small helpers
SetMax(S) == CHOOSE m \in S : \A k \in S : k <= m

Min2(a, b) == IF a < b THEN a ELSE b

Max2(a, b) == IF a > b THEN a ELSE b

LastIndexOf(s, c) ==
  LET I == {k \in 1..Len(s) : s[k] = c}
  IN IF I = {} THEN 0 ELSE SetMax(I)

\* String.prototype.slice(begin, end); a negative index counts from the end,
\* and -0 is 0.
slice(s, begin, end) ==
  LET b == IF begin < 0 THEN Max2(Len(s) + begin, 0) ELSE Min2(begin, Len(s))
      e == IF end < 0 THEN Max2(Len(s) + end, 0) ELSE Min2(end, Len(s))
  IN SubSeq(s, b + 1, e)

Digits == <<"0", "1", "2", "3", "4", "5", "6", "7", "8", "9">>

\* `${Date.now()}`: the decimal digits of a number
RECURSIVE NumToStr(_)
NumToStr(n) ==
  IF n < 10 THEN <<Digits[n + 1]>>
  ELSE NumToStr(n \div 10) \o <<Digits[(n % 10) + 1]>>

\* Array.prototype.join("\n")
RECURSIVE join(_)
join(items) ==
  IF Len(items) = 0 THEN <<>>
  ELSE IF Len(items) = 1 THEN items[1]
  ELSE items[1] \o <<"\n">> \o join(Tail(items))

\* JavaScript values: strings, booleans, objects, null and undefined
JsString(s) == [t |-> "string", s |-> s]

JsObject == [t |-> "object"]

JsBoolean(b) == [t |-> "boolean", b |-> b]

JsNull == [t |-> "null"]

JsUndefined == [t |-> "undefined"]

JsArray(a) == [t |-> "array", a |-> a]

\* String(result)
String(v) ==
  CASE v.t = "string" -> v.s
    [] v.t = "boolean" -> IF v.b THEN <<"true">> ELSE <<"false">>
    [] v.t = "object" -> <<"[object Object]">>
    [] v.t = "null" -> <<"null">>
    [] OTHER -> <<"undefined">>

\* ------------------------------------------------------------- path module
basename(p) == SubSeq(p, LastIndexOf(p, "/") + 1, Len(p))

dirname(p) ==
  LET k == LastIndexOf(p, "/")
  IN IF k = 0 THEN <<>> ELSE SubSeq(p, 1, k - 1)

\* path.extname: from the last "." of the base name to its end; empty when
\* there is no "." or when the only "." is the first character
extname(p) ==
  LET b == basename(p)
      k == LastIndexOf(b, ".")
  IN IF k <= 1 \/ b = <<".", ".">> THEN <<>> ELSE SubSeq(b, k, Len(b))

\* ------------------------------------------------------------ the fs module
\* A filesystem is a function from the existing paths to their entries.
FileEntry(c) == [kind |-> "file", content |-> c]

DirEntry == [kind |-> "dir"]

Under(dir, q) ==
  /\ Len(q) > Len(dir) + 1
  /\ SubSeq(q, 1, Len(dir) + 1) = dir \o <<"/">>

existsSync(f, p) == p \in DOMAIN f

IsDir(f, p) == p = <<>> \/ (p \in DOMAIN f /\ f[p].kind = "dir")

Children(f, dir) == {q \in DOMAIN f : dirname(q) = dir}

Threw(f) == [threw |-> TRUE, fs |-> f]

Returned(f) == [threw |-> FALSE, fs |-> f]

\* fs.renameSync(oldPath, newPath), called with an existing oldPath
renameSync(f, src, dst) ==
  IF ~IsDir(f, dirname(dst)) THEN Threw(f)                  \* ENOENT, ENOTDIR
  ELSE IF src = dst THEN Returned(f)
  ELSE IF Under(src, dst) THEN Threw(f)                     \* EINVAL
  ELSE IF f[src].kind = "file" THEN
    IF dst \in DOMAIN f /\ f[dst].kind = "dir" THEN Threw(f)   \* EISDIR
    ELSE Returned([p \in (DOMAIN f \ {src}) \cup {dst} |->
                     IF p = dst THEN f[src] ELSE f[p]])
  ELSE
    IF dst \in DOMAIN f /\ f[dst].kind = "file" THEN Threw(f)  \* ENOTDIR
    ELSE IF dst \in DOMAIN f /\ Children(f, dst) # {} THEN Threw(f) \* ENOTEMPTY
    ELSE
      LET moved == {src} \cup {q \in DOMAIN f : Under(src, q)}
          Reloc(q) == dst \o SubSeq(q, Len(src) + 1, Len(q))
          kept == DOMAIN f \ (moved \cup {dst})
      IN Returned([p \in kept \cup {Reloc(q) : q \in moved} |->
                     IF p \in kept THEN f[p]
                     ELSE f[CHOOSE q \in moved : Reloc(q) = p]])

\* the ancestors of p that mkdirSync(p, {recursive: true}) has to look at
Ancestors(p) ==
  {SubSeq(p, 1, k - 1) : k \in {j \in 1..Len(p) : p[j] = "/"}}

\* fs.mkdirSync(p, {recursive: true}), called with a p that does not exist
mkdirSync(f, p) ==
  IF \E a \in Ancestors(p) : a \in DOMAIN f /\ f[a].kind = "file"
  THEN Threw(f)                                             \* ENOTDIR
  ELSE Returned([q \in DOMAIN f \cup Ancestors(p) \cup {p} |->
                   IF q \in DOMAIN f THEN f[q] ELSE DirEntry])

writeFileSync_Append(f, p, content) ==
  IF ~IsDir(f, dirname(p)) THEN Threw(f)
  ELSE IF p \in DOMAIN f /\ f[p].kind = "dir" THEN Threw(f)
  ELSE Returned([q \in DOMAIN f \cup {p} |->
                   IF q # p THEN f[q]
                   ELSE IF p \in DOMAIN f THEN FileEntry(f[p].content \o content)
                   ELSE FileEntry(content)])

\* fs.writeFileSync(p, content)
writeFileSync(f, p, content) ==
  IF ~IsDir(f, dirname(p)) THEN Threw(f)                    \* ENOENT, ENOTDIR
  ELSE IF p \in DOMAIN f /\ f[p].kind = "dir" THEN Threw(f)  \* EISDIR
  ELSE Returned([q \in DOMAIN f \cup {p} |->
                   IF q = p THEN FileEntry(content) ELSE f[q]])

\* the orders in which fs.readdirSync may enumerate a directory
Enumerations(f, dir) ==
  LET C == Children(f, dir)
  IN {e \in [1..Cardinality(C) -> C] : \A c \in C : \E k \in DOMAIN e : e[k] = c}

\* Array.prototype.filter
RECURSIVE filter(_, _, _)
filter(f, items, keepKind) ==
  IF Len(items) = 0 THEN <<>>
  ELSE (IF f[items[1]].kind = keepKind THEN <<items[1]>> ELSE <<>>)
       \o filter(f, Tail(items), keepKind)

\* ------------------------------------------------------------------- tools
\* The outcome of a tool call: whether it threw, the value it returned, the
\* filesystem it leaves, whether it read the clock, and (move_file) the
\* destination it renamed to.
Outcome(threw, ret, f, readClock, dest) ==
  [threw |-> threw, ret |-> ret, fs |-> f, readClock |-> readClock, dest |-> dest]

list_files(f, args, enum) ==
  IF ~existsSync(f, args.directory)
  THEN Outcome(FALSE, JsString(<<"Directory not found: ">> \o args.directory),
               f, FALSE, <<>>)
  ELSE IF f[args.directory].kind # "dir"
  THEN Outcome(TRUE, JsUndefined, f, FALSE, <<>>)            \* ENOTDIR
  ELSE
    LET files == filter(f, enum, "file")
        items == [k \in 1..Len(files) |-> basename(files[k])]
    IN Outcome(FALSE,
               IF Len(items) > 0 THEN JsString(join(items))
               ELSE JsString(<<"No files found.">>),
               f, FALSE, <<>>)

create_folder_NoExistsCheck(f, args) ==
  LET r == IF existsSync(f, args.folder_path) THEN Threw(f)   \* EEXIST
           ELSE mkdirSync(f, args.folder_path)
  IN IF r.threw THEN Outcome(TRUE, JsUndefined, f, FALSE, <<>>)
     ELSE Outcome(FALSE, JsString(<<"Created folder: ">> \o args.folder_path),
                  r.fs, FALSE, <<>>)

create_folder(f, args) ==
  IF existsSync(f, args.folder_path)
  THEN Outcome(FALSE, JsString(<<"Folder already exists: ">> \o args.folder_path),
               f, FALSE, <<>>)
  ELSE
    LET r == mkdirSync(f, args.folder_path)
    IN IF r.threw THEN Outcome(TRUE, JsUndefined, f, FALSE, <<>>)
       ELSE Outcome(FALSE, JsString(<<"Created folder: ">> \o args.folder_path),
                    r.fs, FALSE, <<>>)

\* lines 82-84: the destination used when the given one already exists
Disambiguate(destination, t) ==
  LET ext == extname(destination)
      base == slice(destination, 0, 0 - Len(ext))
  IN base \o <<"_">> \o NumToStr(t) \o ext

move_file_NoSourceCheck(f, args, t) ==
  IF ~existsSync(f, args.source)
  THEN Outcome(TRUE, JsUndefined, f, FALSE, args.destination)   \* ENOENT
  ELSE
    LET taken == existsSync(f, args.destination)
        destination == IF taken THEN Disambiguate(args.destination, t)
                       ELSE args.destination
        r == renameSync(f, args.source, destination)
    IN IF r.threw THEN Outcome(TRUE, JsUndefined, f, taken, destination)
       ELSE Outcome(FALSE,
                    JsString(<<"Moved: ">> \o basename(args.source)
                             \o <<" -> ">> \o destination),
                    r.fs, taken, destination)

move_file(f, args, t) ==
  IF ~existsSync(f, args.source)
  THEN Outcome(FALSE, JsString(<<"Source file not found: ">> \o args.source),
               f, FALSE, <<>>)
  ELSE
    LET taken == existsSync(f, args.destination)
        destination == IF taken THEN Disambiguate(args.destination, t)
                       ELSE args.destination
        r == renameSync(f, args.source, destination)
    IN IF r.threw THEN Outcome(TRUE, JsUndefined, f, taken, destination)
       ELSE Outcome(FALSE,
                    JsString(<<"Moved: ">> \o basename(args.source)
                             \o <<" -> ">> \o destination),
                    r.fs, taken, destination)

write_report(f, args) ==
  LET r == writeFileSync(f, args.report_path, args.content)
  IN IF r.threw THEN Outcome(TRUE, JsUndefined, f, FALSE, <<>>)
     ELSE Outcome(FALSE, JsString(<<"Report saved to: ">> \o args.report_path),
                  r.fs, FALSE, <<>>)

\* ----------------------------------------------------------- tool registry
\* const toolFunctions = { list_files, create_folder, move_file, write_report }
OwnTools == {"list_files", "create_folder", "move_file", "write_report"}

\* the functions an object literal inherits from Object.prototype
ObjectPrototypeFunctions ==
  {"toString", "toLocaleString", "valueOf", "hasOwnProperty",
   "isPrototypeOf", "propertyIsEnumerable", "constructor"}

\* toolFunctions[name]: an own property, an inherited one, or undefined
toolFunctions(name) ==
  IF name \in OwnTools THEN [kind |-> "own", fn |-> name]
  ELSE IF name \in ObjectPrototypeFunctions THEN [kind |-> "inherited", fn |-> name]
  ELSE [kind |-> "undefined", fn |-> name]

\* calling a function inherited from Object.prototype on the registry
InheritedCall(fn, f) ==
  CASE fn \in {"toString", "toLocaleString"} ->
         Outcome(FALSE, JsString(<<"[object Object]">>), f, FALSE, <<>>)
    [] fn \in {"hasOwnProperty", "isPrototypeOf", "propertyIsEnumerable"} ->
         Outcome(FALSE, JsBoolean(FALSE), f, FALSE, <<>>)
    [] OTHER -> Outcome(FALSE, JsObject, f, FALSE, <<>>)

\* JSON.parse(toolCall.function.arguments).  A payload is the text the model
\* sent: well-formed JSON for an object, or text that is not JSON (value is
\* then the object a fault-tolerant reader would make of it).
JSONparse_Lenient(text) == [threw |-> FALSE, value |-> text.value]

JSONparse(text) ==
  IF text.wellformed THEN [threw |-> FALSE, value |-> text.value]
  ELSE [threw |-> TRUE, value |-> JsUndefined]

\* lines 196-202: parse the arguments, look the name up, call the function
ToolCallOutcome(toolCall, f, t, enum) ==
  LET name == toolCall.function.name
      parsed == JSONparse(toolCall.function.arguments)
      args == parsed.value
      fn == toolFunctions(name)
  IN IF parsed.threw THEN Outcome(TRUE, JsUndefined, f, FALSE, <<>>)   \* SyntaxError
     ELSE IF fn.kind = "undefined" THEN Outcome(TRUE, JsUndefined, f, FALSE, <<>>) \* TypeError
     ELSE IF fn.kind = "inherited" THEN InheritedCall(name, f)
     ELSE CASE name = "list_files" -> list_files(f, args, enum)
            [] name = "create_folder" -> create_folder(f, args)
            [] name = "move_file" -> move_file(f, args, t)
            [] OTHER -> write_report(f, args)

\* the argument of fs.readdirSync in the call, when the call reaches it
ReadDirOf(toolCall, f) ==
  LET a == toolCall.function.arguments
  IN IF /\ toolCall.function.name = "list_files"
        /\ a.wellformed
        /\ a.value.directory \in DOMAIN f
        /\ f[a.value.directory].kind = "dir"
     THEN Enumerations(f, a.value.directory)
     ELSE {<<>>}

\* ------------------------------------------------------------ the transcript
SystemPrompt == <<"You are a file organization agent. ...">>

\* the paths of the model
P_x == <<"x">>
P_a == <<"x", "/", "a", ".", "p">>
P_b == <<"x", "/", "b", ".", "p">>
P_I == <<"x", "/", "I">>
P_Ia == <<"x", "/", "I", "/", "a", ".", "p">>
P_R == <<"x", "/", "R">>
P_Na == <<"x", "/", "N", "/", "a", ".", "p">>
P_T1 == <<"_", "1">>
P_y == <<"y">>

targetDirectory == P_x

\* lines 161-176: the transcript runAgent(dir) starts with
InitialMessagesFor(dir) ==
  << [role |-> "system", content |-> JsString(SystemPrompt),
      tool_calls |-> JsUndefined, tool_call_id |-> 0],
     [role |-> "user",
      content |-> JsString(<<"Please organize the files in this folder: ">>
                           \o dir),
      tool_calls |-> JsUndefined, tool_call_id |-> 0] >>

InitialMessages == InitialMessagesFor(targetDirectory)

ToolMessage_NoId(id, content) ==
  [role |-> "tool", content |-> JsString(content),
   tool_calls |-> JsUndefined, tool_call_id |-> 0]

\* lines 205-209
ToolMessage(id, content) ==
  [role |-> "tool", content |-> JsString(content),
   tool_calls |-> JsUndefined, tool_call_id |-> id]

\* what the model may ask for: name and textual arguments
Json(obj) == [wellformed |-> TRUE, value |-> obj]

NotJson(obj) == [wellformed |-> FALSE, value |-> obj]

Call(name, arguments) == [name |-> name, arguments |-> arguments]

Menu ==
  { Call("list_files", Json([directory |-> P_x])),
    Call("create_folder", Json([folder_path |-> P_I])),
    Call("move_file", Json([source |-> P_a, destination |-> P_Ia])),
    Call("move_file", Json([source |-> P_b, destination |-> P_Ia])),
    Call("write_report", Json([report_path |-> P_R, content |-> <<"report">>])),
    Call("list_files", NotJson([directory |-> P_x])),
    Call("delete_file", Json([file_path |-> P_a])),
    Call("toString", Json([directory |-> P_x])),
    Call("list_files", Json([directory |-> P_I])),
    Call("create_folder", Json([folder_path |-> P_a])),
    Call("create_folder", Json([folder_path |-> P_y])),
    Call("move_file", Json([source |-> P_Ia, destination |-> P_a])) }

\* the batches that keep the run within MaxToolCalls tool calls
Batches(requested) == UNION {[1..n -> Menu] : n \in 1..(MaxToolCalls - requested)}

\* the tool_calls field of a response: absent, empty, or a batch with fresh ids
ToolCallsOf(batch, firstId) ==
  JsArray([k \in 1..Len(batch) |-> [id |-> firstId + k - 1, function |-> batch[k]]])

Contents == {JsNull, JsString(<<"All done.">>)}

AssistantMessage(content, tool_calls) ==
  [role |-> "assistant", content |-> content,
   tool_calls |-> tool_calls, tool_call_id |-> 0]

Last(s) == s[Len(s)]

\* the local variable `message`: the assistant message being processed
message == Last(SelectSeq(messages, LAMBDA m : m.role = "assistant"))

IsFinal_OnlyMissing(m) == m.tool_calls.t = "undefined"

\* line 189
IsFinal(m) == m.tool_calls.t = "undefined" \/ Len(m.tool_calls.a) = 0

LoopContinues_Capped(sent) == sent < 1

RequestBody_Truncated(msgs) == SubSeq(msgs, Len(msgs) - 1, Len(msgs))

\* line 183: the request carries `messages`
RequestBody(msgs) == msgs

\* line 178: while (true)
LoopContinues(sent) == TRUE

NextToolCall_Reversed(tool_calls, k) == tool_calls[Len(tool_calls) - k + 1]

\* line 195: for (const toolCall of message.tool_calls)
NextToolCall(tool_calls, k) == tool_calls[k]

HasMoreToolCalls_BreakAfterFirst(tool_calls, k) == FALSE

HasMoreToolCalls(tool_calls, k) == k < Len(tool_calls)

\* ------------------------------------------------------------ initial state
AgentFs ==
  [p \in {P_x, P_a, P_b} |-> IF p = P_x THEN DirEntry ELSE FileEntry(p)]

\* the locals of main(): what the user typed at each prompt, the path
\* resolvePath returned, the confirmation prompts shown and the exit code
\* (-1 while the process runs)
MainFrame(apiKey, input, resolvedPath, confirm, fullPathInput, confirmFull, shown, exitCode) ==
  [apiKey |-> apiKey, input |-> input, resolvedPath |-> resolvedPath,
   confirm |-> confirm, fullPathInput |-> fullPathInput,
   confirmFull |-> confirmFull, shown |-> shown, exitCode |-> exitCode]

\* main() suspended in `await runAgent(...)`: its locals are not read again
AwaitingRunAgent == MainFrame(TRUE, <<>>, JsNull, <<>>, <<>>, <<>>, <<>>, 0 - 1)

\* the model answers as it likes: no response is planned to be the final one
NoPlan == 0

NoCall == [name |-> "", args |-> JsUndefined, pre |-> AgentFs,
           out |-> Outcome(FALSE, JsUndefined, AgentFs, FALSE, <<>>)]

Init ==
  /\ pc = "SEND_REQUEST"
  /\ messages = InitialMessages
  /\ i = 0
  /\ fs = AgentFs
  /\ now = 1
  /\ requests = <<>>
  /\ execLog = <<>>
  /\ summary = JsUndefined
  /\ nextId = 1
  /\ last = NoCall
  /\ main = AwaitingRunAgent
  /\ plan = NoPlan

\* ------------------------------------------------------------------ actions
\* lines 178-184: the loop sends the transcript to the model
SendRequest ==
  /\ pc = "SEND_REQUEST"
  /\ Len(requests) < MaxRequests
  /\ IF LoopContinues(Len(requests))
     THEN /\ pc' = "AWAITING_MODEL"
          /\ requests' = Append(requests, RequestBody(messages))
     ELSE /\ pc' = "DONE"
          /\ requests' = requests
  /\ UNCHANGED <<messages, i, fs, now, execLog, summary, nextId, last, main, plan>>

\* lines 186-193: the response arrives, is appended, and decides the next state
ModelResponds(content, tool_calls) ==
  /\ pc = "AWAITING_MODEL"
  /\ LET m == AssistantMessage(content, tool_calls)
     IN /\ messages' = Append(messages, m)
        /\ IF IsFinal(m)
           THEN /\ pc' = "DONE"
                /\ summary' = m.content
                /\ i' = i
           ELSE /\ pc' = "EXECUTING_TOOLS"
                /\ summary' = summary
                /\ i' = 1
        /\ nextId' = IF tool_calls.t = "array" THEN nextId + Len(tool_calls.a)
                     ELSE nextId
  /\ UNCHANGED <<fs, now, requests, execLog, last, main, plan>>

ModelRespondsFinal ==
  \E content \in Contents, tool_calls \in {JsUndefined, JsArray(<<>>)} :
    ModelResponds(content, tool_calls)

ModelRespondsWithToolCalls ==
  \E batch \in Batches(nextId - 1) : ModelResponds(JsNull, ToolCallsOf(batch, nextId))

\* line 179: the request to the model API fails and the error propagates
ModelRequestFails ==
  /\ pc = "AWAITING_MODEL"
  /\ pc' = "ABORTED"
  /\ UNCHANGED <<messages, i, fs, now, requests, execLog, summary, nextId, last,
               main, plan>>

\* lines 195-210: one iteration of the for loop
ExecuteTool ==
  /\ pc = "EXECUTING_TOOLS"
  /\ i <= Len(message.tool_calls.a)
  /\ LET toolCall == NextToolCall(message.tool_calls.a, i)
     IN \E t \in now..MaxClock, enum \in ReadDirOf(toolCall, fs) :
          LET out == ToolCallOutcome(toolCall, fs, t, enum)
          IN IF out.threw
             THEN /\ pc' = "ABORTED"
                  /\ UNCHANGED <<messages, i, fs, now, execLog, last>>
             ELSE /\ messages' = Append(messages,
                                        ToolMessage(toolCall.id, String(out.ret)))
                  /\ fs' = out.fs
                  /\ now' = IF out.readClock THEN t ELSE now
                  /\ execLog' = Append(execLog,
                                       [id |-> toolCall.id,
                                        name |-> toolCall.function.name,
                                        result |-> out.ret])
                  /\ last' = [name |-> toolCall.function.name,
                              args |-> JSONparse(toolCall.function.arguments).value,
                              pre |-> fs, out |-> out]
                  /\ IF HasMoreToolCalls(message.tool_calls.a, i)
                     THEN /\ i' = i + 1
                          /\ pc' = pc
                     ELSE /\ i' = 0
                          /\ pc' = "SEND_REQUEST"
  /\ UNCHANGED <<requests, summary, nextId, main, plan>>

Next ==
  \/ SendRequest
  \/ ModelRespondsFinal
  \/ ModelRespondsWithToolCalls
  \/ ModelRequestFails
  \/ ExecuteTool

Spec == Init /\ [][Next]_vars

\* ------------------------------------------- the tools on their own (SpecFS)
\* move_file called directly, any number of times, on any filesystem made of
\* the paths below.
OptionalPaths == {P_a, P_b, P_I, P_Ia, P_R}

KindOf(p) == IF p = P_I THEN "dir" ELSE "file"

Consistent(f) == \A p \in DOMAIN f : IsDir(f, dirname(p))

InitialFileSystems ==
  LET Build(S) == [p \in {P_x} \cup S |->
                     IF p = P_x \/ KindOf(p) = "dir" THEN DirEntry
                     ELSE FileEntry(p)]
  IN {f \in {Build(S) : S \in SUBSET OptionalPaths} : Consistent(f)}

\* the arguments tried: sources are paths of regular files (or of nothing),
\* destinations are any path, among them one in a directory that never exists
\* and one of the form "_<token>"
SourcePaths == {P_a, P_b, P_R, P_Ia, P_Na}

DestinationPaths == OptionalPaths \cup {P_Na, P_T1}

InitFS ==
  /\ pc = "TOOLS"
  /\ messages = <<>>
  /\ i = 0
  /\ fs \in InitialFileSystems
  /\ now = 1
  /\ requests = <<>>
  /\ execLog = <<>>
  /\ summary = JsUndefined
  /\ nextId = 1
  /\ last = NoCall
  /\ main = AwaitingRunAgent
  /\ plan = NoPlan

\* one call move_file({source, destination})
MoveFileCall(source, destination) ==
  /\ pc = "TOOLS"
  /\ nextId <= MaxMoves
  /\ \E t \in now..MaxClock :
       LET args == [source |-> source, destination |-> destination]
           out == move_file(fs, args, t)
       IN /\ fs' = out.fs
          /\ now' = IF out.readClock THEN t ELSE now
          /\ last' = [name |-> "move_file", args |-> args, pre |-> fs, out |-> out]
  /\ nextId' = nextId + 1
  /\ UNCHANGED <<pc, messages, i, requests, execLog, summary, main, plan>>

NextFS == \E source \in SourcePaths, destination \in DestinationPaths :
            MoveFileCall(source, destination)

SpecFS == InitFS /\ [][NextFS]_vars

\* ======================================================== the loop's claims
RECURSIVE AllToolCalls(_)
AllToolCalls(msgs) ==
  IF Len(msgs) = 0 THEN <<>>
  ELSE (IF msgs[1].role = "assistant" /\ msgs[1].tool_calls.t = "array"
        THEN msgs[1].tool_calls.a ELSE <<>>)
       \o AllToolCalls(Tail(msgs))

ToolResults(msgs) == SelectSeq(msgs, LAMBDA m : m.role = "tool")

ResultsFor(msgs, id) ==
  {k \in 1..Len(msgs) : msgs[k].role = "tool" /\ msgs[k].tool_call_id = id}

NoToolCalls(m) ==
  \/ m.tool_calls.t = "undefined"
  \/ m.tool_calls.t = "array" /\ Len(m.tool_calls.a) = 0

AssistantIndexes(msgs) == {k \in 1..Len(msgs) : msgs[k].role = "assistant"}

\* the tool call the for loop is at
CurrentCall ==
  LET A == AssistantIndexes(messages)
  IN messages[SetMax(A)].tool_calls.a[i]

AtToolCall ==
  /\ pc = "EXECUTING_TOOLS"
  /\ AssistantIndexes(messages) # {}
  /\ messages[SetMax(AssistantIndexes(messages))].tool_calls.t = "array"
  /\ i \in 1..Len(messages[SetMax(AssistantIndexes(messages))].tool_calls.a)

\* C1: every transcript that was sent to the model holds, for every tool call
\* requested by an assistant message in it, exactly one tool message whose
\* tool_call_id is that call's id.
C1_EveryCallAnsweredOnceWhenRequestSent ==
  \A r \in 1..Len(requests) :
    \A call \in {AllToolCalls(requests[r])[k] : k \in 1..Len(AllToolCalls(requests[r]))} :
      Cardinality(ResultsFor(requests[r], call.id)) = 1

C1_Witness ==
  /\ Len(requests) = 2
  /\ Len(AllToolCalls(requests[2])) = 2
  /\ Len(ToolResults(requests[2])) = 2

\* C2: the tools of a batch run in the order listed; the results follow their
\* assistant message directly, in that order, the k-th carrying the k-th id
\* and the stringified result of the k-th execution; outside the for loop
\* every batch in the transcript is complete.
C2_ResultsFollowInListedOrder ==
  /\ Len(execLog) = Len(ToolResults(messages))
  /\ Len(execLog) <= Len(AllToolCalls(messages))
  /\ \A e \in 1..Len(execLog) :
       /\ execLog[e].id = AllToolCalls(messages)[e].id
       /\ execLog[e].name = AllToolCalls(messages)[e].function.name
       /\ ToolResults(messages)[e].tool_call_id = execLog[e].id
       /\ ToolResults(messages)[e].content = JsString(String(execLog[e].result))
  /\ \A k \in AssistantIndexes(messages) :
       ~NoToolCalls(messages[k]) =>
         LET calls == messages[k].tool_calls.a
             running == k = SetMax(AssistantIndexes(messages))
                        /\ pc \in {"EXECUTING_TOOLS", "ABORTED"}
             done == IF running THEN Len(messages) - k ELSE Len(calls)
         IN /\ done <= Len(calls)
            /\ k + done <= Len(messages)
            /\ \A j \in 1..done :
                 /\ messages[k + j].role = "tool"
                 /\ messages[k + j].tool_call_id = calls[j].id
            /\ k + done < Len(messages) => messages[k + done + 1].role = "assistant"
  /\ pc \in {"SEND_REQUEST", "AWAITING_MODEL"} =>
       Len(ToolResults(messages)) = Len(AllToolCalls(messages))

C2_Witness ==
  /\ pc = "AWAITING_MODEL"
  /\ Len(requests) = 2
  /\ Len(messages) = 5
  /\ messages[3].role = "assistant"
  /\ Len(messages[3].tool_calls.a) = 2
  /\ messages[3].tool_calls.a[1].function.name = "create_folder"
  /\ messages[3].tool_calls.a[2].function.name = "move_file"
  /\ messages[4].tool_call_id = messages[3].tool_calls.a[1].id
  /\ messages[5].tool_call_id = messages[3].tool_calls.a[2].id
  /\ messages[4].content = JsString(<<"Created folder: ">> \o P_I)
  /\ messages[5].content = JsString(<<"Moved: ">> \o basename(P_a) \o <<" -> ">> \o P_Ia)

\* C3: a response without tool calls is appended, its content becomes the
\* summary and the loop is DONE; from DONE on nothing changes.
C3_FinalResponseEndsLoop ==
  [][ /\ (/\ pc = "AWAITING_MODEL"
          /\ Len(messages') = Len(messages) + 1
          /\ NoToolCalls(Last(messages')))
         => (/\ pc' = "DONE"
             /\ SubSeq(messages', 1, Len(messages)) = messages
             /\ Last(messages').role = "assistant"
             /\ summary' = Last(messages').content
             /\ UNCHANGED <<fs, requests, execLog>>)
      /\ pc = "DONE" => UNCHANGED <<pc, messages, fs, requests, execLog, summary>>
    ]_vars

C3_Witness ==
  /\ pc = "DONE"
  /\ Len(requests) = 2
  /\ Last(messages).tool_calls = JsArray(<<>>)
  /\ summary = JsString(<<"All done.">>)
  /\ Len(execLog) = 2

\* C4: DONE is entered only by the step that appends an assistant message
\* without tool calls; while every response asks for a tool the loop goes on,
\* up to the number of requests the model allows.
C4_DoneOnlyAfterFinalResponse ==
  [][ (pc' = "DONE" /\ pc # "DONE")
      => (/\ pc = "AWAITING_MODEL"
          /\ Len(messages') = Len(messages) + 1
          /\ SubSeq(messages', 1, Len(messages)) = messages
          /\ Last(messages').role = "assistant"
          /\ NoToolCalls(Last(messages')))
    ]_vars

C4_Witness ==
  /\ pc = "SEND_REQUEST"
  /\ Len(requests) = MaxRequests
  /\ Cardinality(AssistantIndexes(messages)) = MaxRequests
  /\ \A k \in AssistantIndexes(messages) : ~NoToolCalls(messages[k])
  /\ Len(execLog) >= MaxRequests

\* C5: a tool call whose name is not one of the four registered tools aborts
\* the run: nothing is executed, no tool message is appended.
C5_UnknownNameAborts ==
  [][ (AtToolCall /\ CurrentCall.function.name \notin
         {"list_files", "create_folder", "move_file", "write_report"})
      => (pc' = "ABORTED" /\ UNCHANGED <<messages, fs, execLog, requests>>)
    ]_vars

\* C6: when the arguments of the current tool call do not parse, the run
\* aborts: the tool is not executed, nothing is appended, and the transcript
\* and filesystem left by the earlier calls of the batch stay as they are;
\* after the abort no request is sent and no tool runs.
C6_ParseFailureAborts ==
  [][ /\ (AtToolCall /\ ~CurrentCall.function.arguments.wellformed)
         => (pc' = "ABORTED" /\ UNCHANGED <<messages, fs, execLog, requests, i>>)
      /\ pc = "ABORTED" => UNCHANGED <<pc, messages, fs, execLog, requests, i>>
    ]_vars

C6_Witness ==
  /\ pc = "ABORTED"
  /\ i = 2
  /\ AssistantIndexes(messages) # {}
  /\ ~messages[SetMax(AssistantIndexes(messages))].tool_calls.a[2].function.arguments.wellformed
  /\ Last(messages).role = "tool"
  /\ Last(messages).tool_call_id =
       messages[SetMax(AssistantIndexes(messages))].tool_calls.a[1].id
  /\ P_I \in DOMAIN fs
  /\ Len(execLog) = 1

\* ================================================== the claims on move_file
MoveCalled == last.name = "move_file"

\* C7: a move never overwrites: every file there before the call, other than
\* the source (and what lies under it), is afterwards at the same path with
\* the same content.
C7_MoveNeverOverwrites ==
  MoveCalled =>
    \A p \in DOMAIN last.pre :
      (/\ last.pre[p].kind = "file"
       /\ p # last.args.source
       /\ ~Under(last.args.source, p))
      => (p \in DOMAIN fs /\ fs[p] = last.pre[p])

\* C8: with an existing source and an existing destination, move_file
\* succeeds, moves to a path other than the destination, and leaves the
\* destination as it was.
C8_ExistingDestinationUntouched ==
  (/\ MoveCalled
   /\ last.args.source \in DOMAIN last.pre
   /\ last.args.destination \in DOMAIN last.pre)
  => (/\ ~last.out.threw
      /\ last.out.dest # last.args.destination
      /\ last.args.destination \in DOMAIN fs
      /\ fs[last.args.destination] = last.pre[last.args.destination])

\* C9: with an existing destination, the path moved to is the destination
\* with "_<token>" inserted right before its extension.
C9_TokenInsertedBeforeExtension ==
  (/\ MoveCalled
   /\ last.args.source \in DOMAIN last.pre
   /\ last.args.destination \in DOMAIN last.pre)
  => LET d == last.args.destination
         ext == extname(d)
         stem == SubSeq(d, 1, Len(d) - Len(ext))
     IN \E t \in 1..MaxClock :
          last.out.dest = stem \o <<"_">> \o NumToStr(t) \o ext

\* C10: with an existing source and a destination that does not exist,
\* move_file relocates: the source is gone, the destination holds what was at
\* the source, and the string returned names the base name of the source and
\* the destination.
C10_MoveRelocates ==
  (/\ MoveCalled
   /\ last.args.source \in DOMAIN last.pre
   /\ last.args.destination \notin DOMAIN last.pre)
  => (/\ ~last.out.threw
      /\ last.args.source \notin DOMAIN fs
      /\ last.args.destination \in DOMAIN fs
      /\ fs[last.args.destination] = last.pre[last.args.source]
      /\ last.out.ret = JsString(<<"Moved: ">> \o basename(last.args.source)
                                 \o <<" -> ">> \o last.args.destination))

\* ============================================ more claims on the loop (Spec)
\* the conditions the tools answer with a string: the directory to list is
\* missing, the folder to create exists, the source to move is missing
SoftFailure(call, f) ==
  /\ call.function.arguments.wellformed
  /\ LET a == call.function.arguments.value
     IN \/ call.function.name = "list_files" /\ a.directory \notin DOMAIN f
        \/ call.function.name = "create_folder" /\ a.folder_path \in DOMAIN f
        \/ call.function.name = "move_file" /\ a.source \notin DOMAIN f

SoftFailureText(call) ==
  LET a == call.function.arguments.value
  IN CASE call.function.name = "list_files" ->
            <<"Directory not found: ">> \o a.directory
       [] call.function.name = "create_folder" ->
            <<"Folder already exists: ">> \o a.folder_path
       [] OTHER -> <<"Source file not found: ">> \o a.source

BatchLength == Len(messages[SetMax(AssistantIndexes(messages))].tool_calls.a)

\* C11: a tool call that meets a missing directory (list_files), an existing
\* path (create_folder) or a missing source (move_file) does not abort: the
\* filesystem stays as it is, the descriptive string is appended as the tool
\* message of that call, and the loop moves to the next call of the batch or
\* to the next request.
C11_SoftFailuresFeedBack ==
  [][ (AtToolCall /\ SoftFailure(CurrentCall, fs))
      => (/\ fs' = fs
          /\ messages' = Append(messages,
                                [role |-> "tool",
                                 content |-> JsString(SoftFailureText(CurrentCall)),
                                 tool_calls |-> JsUndefined,
                                 tool_call_id |-> CurrentCall.id])
          /\ IF i < BatchLength
             THEN pc' = "EXECUTING_TOOLS" /\ i' = i + 1
             ELSE pc' = "SEND_REQUEST")
    ]_vars

C11_Witness ==
  /\ pc = "AWAITING_MODEL"
  /\ Len(requests) = 2
  /\ last.name = "move_file"
  /\ last.args.source \notin DOMAIN last.pre
  /\ fs = last.pre
  /\ Last(messages).role = "tool"
  /\ Last(messages).content = JsString(<<"Source file not found: ">> \o last.args.source)
  /\ Last(requests) = messages

\* C14: whatever the model asks for, every path created, removed or modified
\* since the start of the run lies under the target directory.
C14_ChangesStayUnderTarget ==
  \A p \in DOMAIN fs \cup DOMAIN AgentFs :
    (\/ p \notin DOMAIN fs
     \/ p \notin DOMAIN AgentFs
     \/ fs[p] # AgentFs[p])
    => Under(targetDirectory, p)

IsPrefix(s, t) == Len(s) <= Len(t) /\ SubSeq(t, 1, Len(s)) = s

\* C16: the transcript starts as [system, user naming the target directory];
\* a step never removes, reorders or rewrites a message, it appends at most
\* one message, of role assistant or tool; a request carries the whole
\* transcript of the moment it is sent.
C16_TranscriptAppendOnly ==
  [][ /\ SubSeq(messages, 1, 2) = InitialMessages
      /\ messages[2].content =
           JsString(<<"Please organize the files in this folder: ">> \o targetDirectory)
      /\ IsPrefix(messages, messages')
      /\ Len(messages') <= Len(messages) + 1
      /\ Len(messages') = Len(messages) + 1
           => Last(messages').role \in {"assistant", "tool"}
      /\ Len(requests') # Len(requests)
           => (/\ requests' = Append(requests, messages)
               /\ messages' = messages)
    ]_vars

C16_Witness ==
  /\ Len(requests) = 2
  /\ requests[1] = InitialMessages
  /\ Len(requests[2]) = 5
  /\ requests[2] = messages
  /\ messages[3].role = "assistant"
  /\ messages[4].role = "tool"
  /\ messages[5].role = "tool"

\* ------------------------------------- the four tools on their own (SpecTools)
\* Each tool called directly, MaxDirectCalls times in a row, on the filesystems
\* below; `last` is the latest call and execLog holds the one before it.
P_N == <<"x", "/", "N">>
P_as == <<"x", "/", "a", ".", "p", "/", "s">>

ToolsFileSystems == {f \in InitialFileSystems : P_b \notin DOMAIN f}

ListArgs == {P_x, P_I, P_a, P_y}

CreateArgs == {P_I, P_a, P_Na, P_as}

MoveSources == {P_a, P_I, P_Na}

MoveDestinations == {P_Ia, P_R, P_a, P_y}

WriteArgs == {P_R, P_a, P_I, P_Na}

ReportContents == {<<"report">>, <<>>}

InitTools ==
  /\ pc = "TOOLS"
  /\ messages = <<>>
  /\ i = 0
  /\ fs \in ToolsFileSystems
  /\ now = 1
  /\ requests = <<>>
  /\ execLog = <<>>
  /\ summary = JsUndefined
  /\ nextId = 1
  /\ last = NoCall
  /\ main = AwaitingRunAgent
  /\ plan = NoPlan

\* the bookkeeping of a direct call
DirectCall(name, args, out, t) ==
  /\ pc = "TOOLS"
  /\ nextId <= MaxDirectCalls
  /\ fs' = out.fs
  /\ now' = IF out.readClock THEN t ELSE now
  /\ last' = [name |-> name, args |-> args, pre |-> fs, out |-> out]
  /\ execLog' = IF nextId = 1 THEN <<>> ELSE <<last>>
  /\ nextId' = nextId + 1
  /\ UNCHANGED <<pc, messages, i, requests, summary, main, plan>>

ListFilesCall(directory) ==
  LET args == [directory |-> directory]
  IN \E enum \in (IF directory \in DOMAIN fs /\ fs[directory].kind = "dir"
                  THEN Enumerations(fs, directory) ELSE {<<>>}) :
       DirectCall("list_files", args, list_files(fs, args, enum), now)

CreateFolderCall(folder_path) ==
  LET args == [folder_path |-> folder_path]
  IN DirectCall("create_folder", args, create_folder(fs, args), now)

MoveFileDirect(source, destination) ==
  LET args == [source |-> source, destination |-> destination]
  IN \E t \in now..MaxClock :
       DirectCall("move_file", args, move_file(fs, args, t), t)

WriteReportCall(report_path, content) ==
  LET args == [report_path |-> report_path, content |-> content]
  IN DirectCall("write_report", args, write_report(fs, args), now)

NextTools ==
  \/ \E directory \in ListArgs : ListFilesCall(directory)
  \/ \E folder_path \in CreateArgs : CreateFolderCall(folder_path)
  \/ \E source \in MoveSources, destination \in MoveDestinations :
       MoveFileDirect(source, destination)
  \/ \E report_path \in WriteArgs, content \in ReportContents :
       WriteReportCall(report_path, content)

SpecTools == InitTools /\ [][NextTools]_vars

\* ====================================== the claims on the tools (SpecTools)
TwoCreates ==
  /\ Len(execLog) = 1
  /\ execLog[1].name = "create_folder"
  /\ last.name = "create_folder"
  /\ execLog[1].args.folder_path = last.args.folder_path

AlreadyExists(p) == JsString(<<"Folder already exists: ">> \o p)

\* C12 as stated: two calls of create_folder with the same path in a row leave
\* exactly one directory at the path (missing intermediate directories
\* created by the first call), the second call returns "already exists"
\* without raising, and the filesystem after it is that after the first.
C12_CreateFolderIdempotent ==
  TwoCreates =>
    LET p == last.args.folder_path
    IN /\ ~execLog[1].out.threw
       /\ ~last.out.threw
       /\ last.out.ret = AlreadyExists(p)
       /\ fs = last.pre
       /\ p \in DOMAIN fs
       /\ fs[p].kind = "dir"
       /\ \A a \in Ancestors(p) : a \in DOMAIN fs /\ fs[a].kind = "dir"

\* C12 amended: if the first call returns, the second returns "already
\* exists" without raising and leaves the filesystem as the first left it; a
\* path that did not exist before the first call is then one directory, with
\* its missing intermediate directories created by the first call; a path
\* that was a regular file stays that file; if an ancestor of the path is a
\* regular file both calls raise and change nothing.
C12_CreateFolderIdempotentAmended ==
  TwoCreates =>
    LET p == last.args.folder_path
        first == execLog[1]
        blocked == \E a \in Ancestors(p) :
                     a \in DOMAIN first.pre /\ first.pre[a].kind = "file"
    IN /\ fs = last.pre
       /\ first.out.threw <=> blocked
       /\ blocked => (last.out.threw /\ fs = first.pre)
       /\ ~blocked =>
            /\ ~last.out.threw
            /\ last.out.ret = AlreadyExists(p)
            /\ p \in DOMAIN fs
            /\ p \in DOMAIN first.pre => fs = first.pre
            /\ p \notin DOMAIN first.pre =>
                 /\ fs[p].kind = "dir"
                 /\ \A a \in Ancestors(p) : a \in DOMAIN fs /\ fs[a].kind = "dir"
                 /\ \A q \in DOMAIN first.pre : fs[q] = first.pre[q]
                 /\ DOMAIN fs = DOMAIN first.pre \cup Ancestors(p) \cup {p}

C12_Witness ==
  /\ TwoCreates
  /\ last.args.folder_path = P_Na
  /\ P_N \notin DOMAIN execLog[1].pre
  /\ P_N \in DOMAIN fs
  /\ fs[P_Na].kind = "dir"
  /\ last.out.ret = AlreadyExists(P_Na)

\* the listings list_files may return for a directory: the names of its
\* regular files, in some enumeration order, joined by newlines
Listings(f, dir) ==
  {join([k \in 1..Len(filter(f, e, "file")) |-> basename(filter(f, e, "file")[k])]) :
     e \in Enumerations(f, dir)}

\* C13: list_files returns "not found" for a directory that does not exist;
\* otherwise the newline-joined names of the regular files of the directory,
\* or "No files found." when it has none.
C13_ListFilesResult ==
  last.name = "list_files" =>
    LET dir == last.args.directory
        files == {q \in Children(last.pre, dir) : last.pre[q].kind = "file"}
    IN /\ ~last.out.threw
       /\ dir \notin DOMAIN last.pre =>
            last.out.ret = JsString(<<"Directory not found: ">> \o dir)
       /\ (dir \in DOMAIN last.pre /\ files = {}) =>
            last.out.ret = JsString(<<"No files found.">>)
       /\ (dir \in DOMAIN last.pre /\ files # {}) =>
            \E text \in Listings(last.pre, dir) : last.out.ret = JsString(text)

ChangedPaths(f, g) ==
  {p \in DOMAIN f \cup DOMAIN g :
     p \notin DOMAIN f \/ p \notin DOMAIN g \/ f[p] # g[p]}

AtOrUnder(p, q) == q = p \/ Under(p, q)

\* C18: a call changes only the paths its arguments name.  list_files changes
\* nothing; create_folder only adds folder_path and its missing ancestors, as
\* directories; move_file only removes the source and adds the destination
\* named in the string it returns (with what lies under them when the source
\* is a directory); write_report only changes report_path, which then is a
\* file holding exactly the content given.
C18_ToolsChangeOnlyTheirPaths ==
  LET changed == ChangedPaths(last.pre, fs)
      a == last.args
  IN /\ last.out.threw => changed = {}
     /\ last.name = "list_files" => changed = {}
     /\ last.name = "create_folder" =>
          \A p \in changed :
            /\ p = a.folder_path \/ p \in Ancestors(a.folder_path)
            /\ p \notin DOMAIN last.pre
            /\ fs[p] = DirEntry
     /\ last.name = "move_file" =>
          /\ \A p \in changed :
               AtOrUnder(a.source, p) \/ AtOrUnder(last.out.dest, p)
          /\ changed # {} =>
               /\ a.source \notin DOMAIN fs
               /\ fs[last.out.dest] = last.pre[a.source]
               /\ last.out.ret = JsString(<<"Moved: ">> \o basename(a.source)
                                          \o <<" -> ">> \o last.out.dest)
     /\ last.name = "write_report" =>
          /\ changed \subseteq {a.report_path}
          /\ ~last.out.threw => fs[a.report_path] = FileEntry(a.content)

C18_Witness ==
  /\ last.name = "write_report"
  /\ last.args.report_path = P_a
  /\ P_a \in DOMAIN last.pre
  /\ last.pre[P_a] = FileEntry(P_a)
  /\ last.args.content = <<"report">>
  /\ fs[P_a] = FileEntry(<<"report">>)
  /\ Len(execLog) = 1
  /\ execLog[1].name = "move_file"

\* --------------------------- the loop with a model that answers (SpecLive)
\* Every request is answered; `plan` is the number k of the first response
\* without tool calls.  Responses before the k-th ask for at least one call
\* and leave one call of the MaxToolCalls budget to each response still due.
\* The calls are those of an organising run: list, create a folder, move a
\* file into it, write the report (a move before its folder exists raises).
LiveMenu ==
  { Call("list_files", Json([directory |-> P_x])),
    Call("create_folder", Json([folder_path |-> P_I])),
    Call("move_file", Json([source |-> P_a, destination |-> P_Ia])),
    Call("write_report", Json([report_path |-> P_R, content |-> <<"report">>])) }

LiveBatches(requested) ==
  {b \in Batches(requested) : \A k \in DOMAIN b : b[k] \in LiveMenu}

InitLive ==
  /\ pc = "SEND_REQUEST"
  /\ messages = InitialMessages
  /\ i = 0
  /\ fs = AgentFs
  /\ now = 1
  /\ requests = <<>>
  /\ execLog = <<>>
  /\ summary = JsUndefined
  /\ nextId = 1
  /\ last = NoCall
  /\ main = AwaitingRunAgent
  /\ plan \in 1..MaxRequests

PlannedFinal ==
  /\ Len(requests) = plan
  /\ ModelRespondsFinal

PlannedToolCalls ==
  /\ Len(requests) < plan
  /\ \E batch \in LiveBatches((nextId - 1) + (plan - 1 - Len(requests))) :
       ModelResponds(JsNull, ToolCallsOf(batch, nextId))

NextLive ==
  \/ SendRequest
  \/ PlannedFinal
  \/ PlannedToolCalls
  \/ ExecuteTool

\* the loop runs on when it can (no step of runAgent waits for anything but
\* the response), and every request is answered
SpecLive ==
  /\ InitLive
  /\ [][NextLive]_vars
  /\ WF_vars(SendRequest)
  /\ WF_vars(ExecuteTool)
  /\ WF_vars(PlannedFinal \/ PlannedToolCalls)

DoneAsPlanned ==
  /\ pc = "DONE"
  /\ Len(requests) = plan
  /\ Cardinality(AssistantIndexes(messages)) = plan
  /\ NoToolCalls(messages[Len(messages)])
  /\ Len(ToolResults(messages)) = Len(AllToolCalls(messages))
  /\ \A k \in 1..Len(AllToolCalls(messages)) :
       Cardinality(ResultsFor(messages, AllToolCalls(messages)[k].id)) = 1

\* C19: when every request is answered and the k-th response is the first
\* without tool calls, the run either aborts on a failing tool call, name
\* lookup or argument parse, or eventually is DONE after exactly k requests,
\* with k assistant messages and one tool message per tool call requested;
\* and it is never DONE in any other way.
C19_EventuallyDoneAfterKRequests ==
  /\ <>(pc = "ABORTED" \/ DoneAsPlanned)
  /\ [](pc = "DONE" => DoneAsPlanned)

C19_Witness ==
  /\ DoneAsPlanned
  /\ plan = 2
  /\ Len(AllToolCalls(messages)) = 2
  /\ Len(execLog) = 2

\* ------------------------------------------- startup and main() (SpecMain)
Space == " "

\* String.prototype.trim, for the blanks a user may type around an answer
RECURSIVE trim(_)
trim(s) ==
  IF Len(s) = 0 THEN s
  ELSE IF s[1] = Space THEN trim(Tail(s))
  ELSE IF s[Len(s)] = Space THEN trim(SubSeq(s, 1, Len(s) - 1))
  ELSE s

UpperCase == <<"A", "B", "C", "D", "E", "F", "G", "H", "I", "J", "K", "L", "M",
               "N", "O", "P", "Q", "R", "S", "T", "U", "V", "W", "X", "Y", "Z">>

LowerCase == <<"a", "b", "c", "d", "e", "f", "g", "h", "i", "j", "k", "l", "m",
               "n", "o", "p", "q", "r", "s", "t", "u", "v", "w", "x", "y", "z">>

\* String.prototype.toLowerCase
toLowerCase(s) ==
  [k \in DOMAIN s |->
     IF \E j \in DOMAIN UpperCase : UpperCase[j] = s[k]
     THEN LowerCase[CHOOSE j \in DOMAIN UpperCase : UpperCase[j] = s[k]]
     ELSE s[k]]

\* path.join: the non-empty segments, separated by "/"
RECURSIVE pathJoin(_)
pathJoin(segments) ==
  IF Len(segments) = 0 THEN <<>>
  ELSE LET rest == pathJoin(Tail(segments))
       IN IF Len(segments[1]) = 0 THEN rest
          ELSE IF Len(rest) = 0 THEN segments[1]
          ELSE segments[1] \o <<"/">> \o rest

\* os.homedir()
homedir == <<"h">>

S_OneDrive == <<"O", "n", "e", "D", "r", "i", "v", "e">>
S_Desktop == <<"D", "e", "s", "k", "t", "o", "p">>
S_Downloads == <<"D", "o", "w", "n", "l", "o", "a", "d", "s">>
S_Documents == <<"D", "o", "c", "u", "m", "e", "n", "t", "s">>
S_Pictures == <<"P", "i", "c", "t", "u", "r", "e", "s">>
S_Videos == <<"V", "i", "d", "e", "o", "s">>
S_Music == <<"M", "u", "s", "i", "c">>
S_constructor == <<"c", "o", "n", "s", "t", "r", "u", "c", "t", "o", "r">>
S___proto__ == <<"_", "_", "p", "r", "o", "t", "o", "_", "_">>

\* lines 33-43: shortcuts[lower].  The own keys give arrays of candidate
\* paths; "constructor" and "__proto__" are inherited from Object.prototype
\* and give a function or an object; any other key gives undefined.
shortcuts(lower) ==
  CASE lower = toLowerCase(S_Desktop) ->
         JsArray(<<pathJoin(<<homedir, S_OneDrive, S_Desktop>>),
                   pathJoin(<<homedir, S_Desktop>>)>>)
    [] lower = toLowerCase(S_Downloads) -> JsArray(<<pathJoin(<<homedir, S_Downloads>>)>>)
    [] lower = toLowerCase(S_Documents) -> JsArray(<<pathJoin(<<homedir, S_Documents>>)>>)
    [] lower = toLowerCase(S_Pictures) -> JsArray(<<pathJoin(<<homedir, S_Pictures>>)>>)
    [] lower = toLowerCase(S_Videos) -> JsArray(<<pathJoin(<<homedir, S_Videos>>)>>)
    [] lower = toLowerCase(S_Music) -> JsArray(<<pathJoin(<<homedir, S_Music>>)>>)
    [] lower \in {S_constructor, S___proto__} -> JsObject
    [] OTHER -> JsUndefined

\* lines 46-48: the first candidate that exists, if any
FirstExisting(f, candidates) ==
  LET E == {k \in DOMAIN candidates : existsSync(f, candidates[k])}
  IN IF E = {} THEN JsNull
     ELSE JsString(candidates[CHOOSE k \in E : \A j \in E : k <= j])

\* lines 30-63: the value returned, or threw = TRUE for the TypeError of
\* `for (const p of shortcuts[lower])` on a value that is not iterable
resolvePath(f, input) ==
  LET lower == toLowerCase(input)
      sc == shortcuts(lower)
      viaShortcut == IF sc.t = "array" THEN FirstExisting(f, sc.a) ELSE JsNull
      onOneDriveDesktop == pathJoin(<<homedir, S_OneDrive, S_Desktop, input>>)
      onDesktop == pathJoin(<<homedir, S_Desktop, input>>)
      inHome == pathJoin(<<homedir, input>>)
  IN IF sc.t = "object" THEN [threw |-> TRUE, value |-> JsUndefined]
     ELSE [threw |-> FALSE,
           value |-> IF viaShortcut # JsNull THEN viaShortcut
                     ELSE FirstExisting(f, <<input, onOneDriveDesktop,
                                             onDesktop, inHome>>)]

CredentialMissing_Never(apiKey) == FALSE

\* line 8: !process.env.GROQ_API_KEY
CredentialMissing(apiKey) == ~apiKey

Accepts_AnythingButNo(answer) == toLowerCase(answer) # <<"n", "o">>

\* lines 233 and 243, negated
Accepts(answer) ==
  toLowerCase(answer) = <<"y", "e", "s">> \/ toLowerCase(answer) = <<"y">>

\* what a user may type at the three kinds of prompt
FolderAnswers ==
  { <<" ", "x", " ">>, S_Desktop, <<"q">>, <<>>, S_constructor,
    toLowerCase(S_Downloads) }

ConfirmAnswers ==
  { <<"y", "e", "s">>, <<"Y">>, <<" ", "Y", "e", "s", " ">>, <<"n", "o">>,
    <<>>, <<"y", "e", "a", "h">> }

FullPathAnswers == { P_x, P_a, <<"q">>, <<>> }

\* the target and the home directory, with or without a OneDrive desktop
MainFileSystems ==
  LET Home == {homedir, pathJoin(<<homedir, S_Desktop>>)}
      OneDrive == {pathJoin(<<homedir, S_OneDrive>>),
                   pathJoin(<<homedir, S_OneDrive, S_Desktop>>)}
      Build(D) == [p \in DOMAIN AgentFs \cup D |->
                     IF p \in DOMAIN AgentFs THEN AgentFs[p] ELSE DirEntry]
  IN {Build(Home), Build(Home \cup OneDrive)}

MainPcs ==
  {"CHECK_KEY", "PROMPT_FOLDER", "GOT_FOLDER", "PROMPT_CONFIRM", "GOT_CONFIRM",
   "PROMPT_FULL_PATH", "GOT_FULL_PATH", "PROMPT_CONFIRM_FULL",
   "GOT_CONFIRM_FULL", "EXITED"}

InitMain ==
  /\ pc = "CHECK_KEY"
  /\ messages = <<>>
  /\ i = 0
  /\ fs \in MainFileSystems
  /\ now = 1
  /\ requests = <<>>
  /\ execLog = <<>>
  /\ summary = JsUndefined
  /\ nextId = 1
  /\ last = NoCall
  /\ \E apiKey \in BOOLEAN :
       main = MainFrame(apiKey, <<>>, JsNull, <<>>, <<>>, <<>>, <<>>, 0 - 1)
  /\ plan = NoPlan

\* process.exit(code), or the end of the process on an uncaught error
Exit(code) ==
  /\ pc' = "EXITED"
  /\ main' = [main EXCEPT !.exitCode = code]
  /\ UNCHANGED messages

\* lines 248 and 252: runAgent(path) starts with its two messages
EnterRunAgent(path) ==
  /\ pc' = "SEND_REQUEST"
  /\ messages' = InitialMessagesFor(path)
  /\ main' = AwaitingRunAgent

\* lines 8-13
CheckCredential ==
  /\ pc = "CHECK_KEY"
  /\ IF CredentialMissing(main.apiKey)
     THEN Exit(1)
     ELSE pc' = "PROMPT_FOLDER" /\ UNCHANGED <<main, messages>>
  /\ UNCHANGED <<i, fs, now, requests, execLog, summary, nextId, last, plan>>

\* lines 23-26: the user's line arrives and resolves the promise of the
\* prompt that is open with the trimmed answer
AnswerArrives(typed) ==
  /\ \/ /\ pc = "PROMPT_FOLDER"
        /\ typed \in FolderAnswers
        /\ pc' = "GOT_FOLDER"
        /\ main' = [main EXCEPT !.input = trim(typed)]
     \/ /\ pc = "PROMPT_CONFIRM"
        /\ typed \in ConfirmAnswers
        /\ pc' = "GOT_CONFIRM"
        /\ main' = [main EXCEPT !.confirm = trim(typed)]
     \/ /\ pc = "PROMPT_FULL_PATH"
        /\ typed \in FullPathAnswers
        /\ pc' = "GOT_FULL_PATH"
        /\ main' = [main EXCEPT !.fullPathInput = trim(typed)]
     \/ /\ pc = "PROMPT_CONFIRM_FULL"
        /\ typed \in ConfirmAnswers
        /\ pc' = "GOT_CONFIRM_FULL"
        /\ main' = [main EXCEPT !.confirmFull = trim(typed)]
  /\ UNCHANGED <<messages, i, fs, now, requests, execLog, summary, nextId, last,
               plan>>

\* lines 222-231: main() resumes with `input`.  The TypeError of resolvePath
\* rejects the promise of main(), which nothing handles: the process ends
\* with exit code 1.
AfterFolder ==
  /\ pc = "GOT_FOLDER"
  /\ LET r == resolvePath(fs, main.input)
     IN IF r.threw \/ r.value = JsNull
        THEN Exit(1)
        ELSE /\ pc' = "PROMPT_CONFIRM"
             /\ main' = [main EXCEPT !.resolvedPath = r.value,
                                     !.shown = r.value.s]
             /\ UNCHANGED messages
  /\ UNCHANGED <<i, fs, now, requests, execLog, summary, nextId, last, plan>>

\* lines 233-235 and 252: main() resumes with `confirm`
AfterConfirm ==
  /\ pc = "GOT_CONFIRM"
  /\ IF Accepts(main.confirm)
     THEN EnterRunAgent(main.resolvedPath.s)
     ELSE pc' = "PROMPT_FULL_PATH" /\ UNCHANGED <<main, messages>>
  /\ UNCHANGED <<i, fs, now, requests, execLog, summary, nextId, last, plan>>

\* lines 237-242: main() resumes with `fullPathInput`
AfterFullPath ==
  /\ pc = "GOT_FULL_PATH"
  /\ IF ~existsSync(fs, main.fullPathInput)
     THEN Exit(1)
     ELSE /\ pc' = "PROMPT_CONFIRM_FULL"
          /\ main' = [main EXCEPT !.shown = main.fullPathInput]
          /\ UNCHANGED messages
  /\ UNCHANGED <<i, fs, now, requests, execLog, summary, nextId, last, plan>>

\* lines 243-248: main() resumes with `confirmFull`
AfterConfirmFull ==
  /\ pc = "GOT_CONFIRM_FULL"
  /\ IF Accepts(main.confirmFull)
     THEN EnterRunAgent(main.fullPathInput)
     ELSE Exit(0)
  /\ UNCHANGED <<i, fs, now, requests, execLog, summary, nextId, last, plan>>

NextMain ==
  \/ CheckCredential
  \/ \E typed \in FolderAnswers \cup ConfirmAnswers \cup FullPathAnswers :
       AnswerArrives(typed)
  \/ AfterFolder
  \/ AfterConfirm
  \/ AfterFullPath
  \/ AfterConfirmFull
  \/ SendRequest
  \/ ModelRespondsFinal
  \/ ModelRespondsWithToolCalls
  \/ ModelRequestFails
  \/ ExecuteTool

SpecMain == InitMain /\ [][NextMain]_vars

\* ======================================= the claims on startup (SpecMain)
\* "yes" or "y" in any mix of upper and lower case
SaidYes(answer) ==
  \/ answer \in {<<"y">>, <<"Y">>}
  \/ /\ Len(answer) = 3
     /\ answer[1] \in {"y", "Y"}
     /\ answer[2] \in {"e", "E"}
     /\ answer[3] \in {"s", "S"}

\* the folder reference names no existing path: not as typed, not on a
\* desktop, not in the home directory, not through a shortcut
Unresolvable(f, input) ==
  /\ \A base \in {<<>>, pathJoin(<<homedir, S_OneDrive, S_Desktop>>),
                  pathJoin(<<homedir, S_Desktop>>), homedir} :
       pathJoin(<<base, input>>) \notin DOMAIN f
  /\ \A name \in {S_Desktop, S_Downloads, S_Documents, S_Pictures, S_Videos,
                  S_Music} :
       toLowerCase(input) = toLowerCase(name) =>
         /\ pathJoin(<<homedir, name>>) \notin DOMAIN f
         /\ name = S_Desktop =>
              pathJoin(<<homedir, S_OneDrive, S_Desktop>>) \notin DOMAIN f

NothingStarted == requests = <<>> /\ execLog = <<>> /\ messages = <<>>

ExitsWith(code) ==
  pc' = "EXITED" /\ main'.exitCode = code /\ UNCHANGED <<requests, execLog, fs>>

\* C15: without a credential the process exits with code 1 before any
\* prompt; a folder reference that names no existing path, at the first
\* prompt or at the fallback prompt, exits with code 1; declining the fallback
\* confirmation exits with code 0; an exited process has sent no request and
\* executed no tool.
C15_StartupOutcomes ==
  /\ [][ /\ (pc = "CHECK_KEY" /\ ~main.apiKey) => ExitsWith(1)
         /\ (pc = "GOT_FOLDER" /\ Unresolvable(fs, main.input)) => ExitsWith(1)
         /\ (pc = "GOT_FULL_PATH" /\ main.fullPathInput \notin DOMAIN fs)
              => ExitsWith(1)
         /\ (pc = "GOT_CONFIRM_FULL" /\ ~SaidYes(main.confirmFull))
              => ExitsWith(0) ]_vars
  /\ [](pc = "EXITED" => (NothingStarted /\ main.exitCode \in {0, 1}))
  /\ [](~main.apiKey => pc \in {"CHECK_KEY", "EXITED"})

C15_Witness ==
  /\ pc = "EXITED"
  /\ main.exitCode = 0
  /\ main.resolvedPath = JsString(pathJoin(<<homedir, S_Desktop>>))
  /\ main.confirm = <<"y", "e", "a", "h">>
  /\ main.fullPathInput = P_a
  /\ main.confirmFull = <<"n", "o">>
  /\ NothingStarted

\* the directory runAgent was called with, as its user message names it
TargetOf(msgs) == Tail(msgs[2].content.s)

\* C17: the loop is entered only by a step of main() that follows an answer
\* "yes" or "y" (in any case) to the confirmation whose prompt displayed
\* exactly the path handed to runAgent; after the first confirmation was
\* declined that path is the one typed at the fallback prompt; any other
\* answer never starts the agent; before that step no request is sent and no
\* tool is executed.
C17_AgentRunsOnlyOnConfirmedPath ==
  /\ [][ /\ (pc \in MainPcs /\ pc' \notin MainPcs) =>
              /\ pc \in {"GOT_CONFIRM", "GOT_CONFIRM_FULL"}
              /\ pc = "GOT_CONFIRM" => SaidYes(main.confirm)
              /\ pc = "GOT_CONFIRM_FULL" =>
                   /\ SaidYes(main.confirmFull)
                   /\ ~SaidYes(main.confirm)
                   /\ TargetOf(messages') = main.fullPathInput
              /\ TargetOf(messages') = main.shown
              /\ TargetOf(messages') \in DOMAIN fs
              /\ pc' = "SEND_REQUEST"
         /\ (pc = "GOT_CONFIRM" /\ ~SaidYes(main.confirm)) =>
              (pc' = "PROMPT_FULL_PATH" /\ main'.shown = main.shown)
         /\ (pc = "GOT_CONFIRM_FULL" /\ ~SaidYes(main.confirmFull)) =>
              pc' = "EXITED"
         /\ (pc \notin MainPcs) => (pc' \notin MainPcs) ]_vars
  /\ [](pc \in MainPcs => (requests = <<>> /\ execLog = <<>>))

C17_Witness ==
  /\ pc = "AWAITING_MODEL"
  /\ Len(requests) = 1
  /\ TargetOf(messages) = P_a
  /\ TargetOf(requests[1]) = P_a

====
